---- MODULE Spec2Model ----
(***************************************************************************)
(* A model of the file-deduplication CLI of ToolCollection                 *)
(* (python/file_operations/file_deduplicator.py): the directory scanner,   *)
(* the candidate filter, the hash grouper, the duplicate resolver and the  *)
(* main() driver that composes them.                                       *)
(*                                                                         *)
(* Paths, file names and extensions are sequences of one-character         *)
(* strings, so that lower(), splitext() and startswith() are computed.     *)
(* File contents are sequences of byte values.  A digest is modelled by    *)
(* the byte sequence that was fed to the hash object (an injective digest: *)
(* hash collisions are out of scope).                                      *)
(***************************************************************************)
EXTENDS Integers, Sequences, FiniteSets, TLC

(***************************************************************************)
(* Bounds of the explored inputs.                                          *)
(***************************************************************************)
MaxCtime == 2      \* creation times range over 1..MaxCtime
MaxSizeArg == 2    \* --min-size / --max-size range over 0..MaxSizeArg

(***************************************************************************)
(* Python values.                                                          *)
(***************************************************************************)
Some(x) == [some |-> TRUE, v |-> x]
NoneInt == [some |-> FALSE, v |-> 0]
NoneSeq == [some |-> FALSE, v |-> <<>>]

\* truth value of an optional int (None and 0 are falsy)
TruthyInt(o) == o.some /\ o.v # 0
\* truth value of an optional list or string (None and empty are falsy)
TruthySeq(o) == o.some /\ Len(o.v) > 0

InList(x, list) == \E i \in 1..Len(list) : list[i] = x

UpperCase == <<"A","B","C","D","E","F","G","H","I","J","K","L","M",
               "N","O","P","Q","R","S","T","U","V","W","X","Y","Z">>
LowerCase == <<"a","b","c","d","e","f","g","h","i","j","k","l","m",
               "n","o","p","q","r","s","t","u","v","w","x","y","z">>

\* str.lower() on one character
LowerChar(c) ==
    IF \E i \in 1..Len(UpperCase) : UpperCase[i] = c
    THEN LowerCase[CHOOSE i \in 1..Len(UpperCase) : UpperCase[i] = c]
    ELSE c

\* str.lower()
Lower(s) == [i \in 1..Len(s) |-> LowerChar(s[i])]

\* str.startswith('.')
StartsWithDot(s) == Len(s) > 0 /\ s[1] = "."

\* os.path.join(root, file)
os_path_join(root, file) == root \o <<"/">> \o file

\* os.path.splitext(file)[1] for a file name without separators: the suffix
\* from the last dot, unless only dots precede that dot
splitext_ext(file) ==
    LET dots == {i \in 1..Len(file) : file[i] = "."}
    IN  IF dots = {} THEN <<>>
        ELSE LET dotIndex == CHOOSE i \in dots : \A j \in dots : j <= i
             IN  IF \E k \in 1..(dotIndex - 1) : file[k] # "."
                 THEN SubSeq(file, dotIndex, Len(file))
                 ELSE <<>>

\* a sort that reverses the order of elements with equal keys
RECURSIVE SortByKeyTiesReversed(_, _)
SortByKeyTiesReversed(s, key) ==
    IF s = <<>> THEN <<>>
    ELSE LET x == s[Len(s)]
             t == SortByKeyTiesReversed(SubSeq(s, 1, Len(s) - 1), key)
             n == Cardinality({i \in 1..Len(t) : key[t[i]] < key[x]})
         IN  SubSeq(t, 1, n) \o <<x>> \o SubSeq(t, n + 1, Len(t))

\* list.sort(key=...): a stable sort; key is a function on the elements
RECURSIVE SortByKey(_, _)
SortByKey(s, key) ==
    IF s = <<>> THEN <<>>
    ELSE LET x == s[Len(s)]
             t == SortByKey(SubSeq(s, 1, Len(s) - 1), key)
             n == Cardinality({i \in 1..Len(t) : key[t[i]] <= key[x]})
         IN  SubSeq(t, 1, n) \o <<x>> \o SubSeq(t, n + 1, Len(t))

(***************************************************************************)
(* The filesystem.  The scanned tree is d/ with one sub-directory d/s/;    *)
(* f is a regular file outside the tree and m is a path that does not      *)
(* exist.  A filesystem is a function from the paths of the regular files  *)
(* that exist to their records.                                            *)
(***************************************************************************)
DirD == <<"d">>
DirS == <<"d", "/", "s">>
NameA == <<"a", ".", "j", "p", "g">>
NameB == <<"b", ".", "J", "P", "G">>
NameC == <<"c", ".", "t", "x", "t">>
NameH == <<".", "j", "p", "g">>
NameR == <<"r">>
PathA == os_path_join(DirD, NameA)
PathB == os_path_join(DirS, NameB)
PathC == os_path_join(DirD, NameC)
PathH == os_path_join(DirD, NameH)
PathF == <<"f">>
PathM == <<"m">>
PathR == os_path_join(DirD, NameR)

Dirs == {DirD, DirS}
TreePaths == {PathA, PathB, PathC, PathH}

\* the order in which os.walk lists the files of the tree in this run
VARIABLE walk

\* one order in which os.walk can list the tree: top-down, d/ before d/s/
Listing == << [root |-> DirD, file |-> NameA],
              [root |-> DirD, file |-> NameC],
              [root |-> DirD, file |-> NameH],
              [root |-> DirD, file |-> NameR],
              [root |-> DirS, file |-> NameB] >>

\* every order in which os.walk can list the tree: the files of one
\* directory come in any order, those of d/ before those of d/s/
WalkOrders ==
    {w \in [1..Len(Listing) -> {Listing[i] : i \in 1..Len(Listing)}] :
        /\ \A i, j \in 1..Len(Listing) : i # j => w[i] # w[j]
        /\ \A i, j \in 1..Len(Listing) :
              (w[i].root = DirD /\ w[j].root = DirS) => i < j}

File(c, t) == [content |-> c, ctime |-> t, statable |-> TRUE,
               readable |-> TRUE, removable |-> TRUE]

\* the bytes json.dump writes: never the content of a modelled input file
ReportBytes == <<123, 125>>

\* os.path.exists
os_path_exists(fsys, p) == p \in Dirs \/ p \in DOMAIN fsys

\* os.walk(directory) flattened to (root, file) pairs; a walk of something
\* that is not a directory yields nothing (scandir's error is swallowed)
os_walk(fsys, directory) ==
    IF directory = DirD
    THEN SelectSeq(walk, LAMBDA e : os_path_join(e.root, e.file) \in DOMAIN fsys)
    ELSE <<>>

(***************************************************************************)
(* FileDeduplicator.scan_directory                                         *)
(***************************************************************************)
\* os.path.getsize succeeds on a file that exists and can be stat'd
CanStat(fsys, p) == p \in DOMAIN fsys /\ fsys[p].statable
os_path_getsize(fsys, p) == Len(fsys[p].content)

\* the extension test: the file is skipped when a non-empty extension list
\* is given and the file's lower-cased extension is not in it
ExtRejected(file, extensions) ==
    TruthySeq(extensions) /\ ~InList(Lower(splitext_ext(file)), extensions.v)

\* the lower size test
BelowMinStrict(file_size, min_size) == file_size <= min_size
BelowMin(file_size, min_size) == file_size < min_size

\* the upper size test
AboveMax(file_size, max_size) == TruthyInt(max_size) /\ file_size > max_size.v

\* a dict that joins a value to the last entry only
DictAppendAdjacent(d, key, x) ==
    IF d # <<>> /\ d[Len(d)].key = key
    THEN [d EXCEPT ![Len(d)].files = Append(@, x)]
    ELSE Append(d, [key |-> key, files |-> <<x>>])

\* defaultdict(list): d[key].append(x), keys kept in insertion order
DictAppend(d, key, x) ==
    IF \E i \in 1..Len(d) : d[i].key = key
    THEN [i \in 1..Len(d) |->
            IF d[i].key = key THEN [d[i] EXCEPT !.files = Append(@, x)] ELSE d[i]]
    ELSE Append(d, [key |-> key, files |-> <<x>>])

scan_directory(fsys, directory, extensions, min_size, max_size) ==
    LET entries == os_walk(fsys, directory)
        RECURSIVE Loop(_, _)
        Loop(i, size_groups) ==
            IF i > Len(entries) THEN size_groups
            ELSE LET file == entries[i].file
                     file_path == os_path_join(entries[i].root, file)
                 IN  IF ExtRejected(file, extensions) THEN Loop(i + 1, size_groups)
                     ELSE IF ~CanStat(fsys, file_path) THEN Loop(i + 1, size_groups)
                     ELSE LET file_size == os_path_getsize(fsys, file_path)
                          IN  IF BelowMin(file_size, min_size) THEN Loop(i + 1, size_groups)
                              ELSE IF AboveMax(file_size, max_size) THEN Loop(i + 1, size_groups)
                              ELSE Loop(i + 1, DictAppend(size_groups, file_size, file_path))
    IN  Loop(1, <<>>)

(***************************************************************************)
(* FileDeduplicator.calculate_file_hash                                    *)
(***************************************************************************)
\* open(file_path, 'rb') succeeds
CanOpen(fsys, p) == p \in DOMAIN fsys /\ fsys[p].readable

\* f.read(n) at offset pos: a negative n reads to the end of the file,
\* n = 0 reads nothing
f_read(content, pos, n) ==
    IF n < 0 THEN SubSeq(content, pos + 1, Len(content))
    ELSE SubSeq(content, pos + 1, IF pos + n < Len(content) THEN pos + n ELSE Len(content))

\* the bytes fed to hash_obj.update, in order, until read returns b''
RECURSIVE HashLoop(_, _, _, _)
HashLoop(content, pos, fed, chunk_size) ==
    LET chunk == f_read(content, pos, chunk_size)
    IN  IF chunk = <<>> THEN fed
        ELSE HashLoop(content, pos + Len(chunk), fed \o chunk, chunk_size)

\* the result is None (ok = FALSE) when the file cannot be opened
HashNone == [ok |-> FALSE, digest |-> <<>>]
calculate_file_hash(fsys, file_path, chunk_size) ==
    IF CanOpen(fsys, file_path)
    THEN [ok |-> TRUE, digest |-> HashLoop(fsys[file_path].content, 0, <<>>, chunk_size)]
    ELSE HashNone

(***************************************************************************)
(* FileDeduplicator.find_duplicates                                        *)
(***************************************************************************)
\* a dict comprehension keeping the entries with more than one file
AtLeastOne(d) == SelectSeq(d, LAMBDA g : Len(g.files) >= 1)
MoreThanOne(d) == SelectSeq(d, LAMBDA g : Len(g.files) > 1)

\* the files of all entries of a dict, in iteration order
RECURSIVE AllFiles(_)
AllFiles(d) == IF d = <<>> THEN <<>> ELSE d[1].files \o AllFiles(Tail(d))

\* the hash loop over the candidate files: hash_groups keyed by digest
RECURSIVE HashGroups(_, _, _, _)
HashGroups(fsys, files, chunk_size, hash_groups) ==
    IF files = <<>> THEN hash_groups
    ELSE LET file_hash == calculate_file_hash(fsys, files[1], chunk_size)
         IN  HashGroups(fsys, Tail(files), chunk_size,
                        IF file_hash.ok
                        THEN DictAppend(hash_groups, file_hash.digest, files[1])
                        ELSE hash_groups)

\* the result of find_duplicates with the locals the run leaves behind
find_duplicates(fsys, chunk_size, directory, extensions, min_size, max_size) ==
    LET size_groups == scan_directory(fsys, directory, extensions, min_size, max_size)
        duplicate_candidates == MoreThanOne(size_groups)
        candidates == AllFiles(duplicate_candidates)
    IN  [size_groups |-> size_groups,
         hashed |-> candidates,
         duplicates |-> MoreThanOne(HashGroups(fsys, candidates, chunk_size, <<>>))]

(***************************************************************************)
(* FileDeduplicator.delete_duplicates, one iteration of the loop over the  *)
(* duplicate groups.                                                       *)
(***************************************************************************)
Range(s) == {s[i] : i \in 1..Len(s)}

\* os.path.getctime
os_path_getctime(fsys, p) == fsys[p].ctime

\* files.sort(key=getctime) under 'oldest' and 'newest'; the list is left
\* as it is under the other strategies
SortedFiles(fsys, files, keep_strategy) ==
    IF keep_strategy \in {"oldest", "newest"}
    THEN SortByKey(files, [p \in Range(files) |-> os_path_getctime(fsys, p)])
    ELSE files

\* the last file of minimal length
MinByLenLast(files) ==
    files[CHOOSE i \in 1..Len(files) :
            /\ \A j \in 1..Len(files) : Len(files[i]) <= Len(files[j])
            /\ \A j \in (i + 1)..Len(files) : Len(files[j]) > Len(files[i])]

\* min(files, key=len): the first file of minimal length
MinByLen(files) ==
    files[CHOOSE i \in 1..Len(files) :
            /\ \A j \in 1..Len(files) : Len(files[i]) <= Len(files[j])
            /\ \A j \in 1..(i - 1) : Len(files[j]) > Len(files[i])]

\* keep_file with 'newest' taking the head of the sorted list
KeepFileNewestFirst(files, keep_strategy) ==
    CASE keep_strategy = "smallest_path" -> MinByLen(files)
      [] OTHER -> files[1]

\* keep_file, chosen from the (sorted) list
KeepFile(files, keep_strategy) ==
    CASE keep_strategy = "oldest" -> files[1]
      [] keep_strategy = "newest" -> files[Len(files)]
      [] keep_strategy = "smallest_path" -> MinByLen(files)
      [] OTHER -> files[1]

\* the test that makes a file of the group a deletion candidate
IsCandidateAny(file_path, keep_file) == TRUE
IsCandidateKept(file_path, keep_file) == file_path = keep_file
IsCandidateShorter(file_path, keep_file) == Len(file_path) # Len(keep_file)
IsCandidate(file_path, keep_file) == file_path # keep_file

\* the test that makes the loop call os.remove
DoRemoveAlways(dry_run) == TRUE
DoRemove(dry_run) == ~dry_run

\* os.remove succeeds
CanRemove(fsys, p) == p \in DOMAIN fsys /\ fsys[p].removable
Unlink(fsys, p) == [q \in DOMAIN fsys \ {p} |-> fsys[q]]

\* the except clause around os.remove: the failure is printed and the
\* loop goes on; raised tells that an exception left the loop
RemoveFailedCounted(st, file_path) ==
    [st EXCEPT !.candidates = Append(@, file_path),
               !.deleted_files = Append(@, file_path)]
RemoveFailedUncaught(st, file_path) ==
    [st EXCEPT !.candidates = Append(@, file_path), !.raised = TRUE]
RemoveFailed(st, file_path) ==
    [st EXCEPT !.candidates = Append(@, file_path)]

\* the inner loop over the files of one group.  st carries the filesystem,
\* deleted_files and the candidates seen so far
RECURSIVE DeleteLoop(_, _, _, _)
DeleteLoop(files, keep_file, dry_run, st) ==
    IF files = <<>> \/ st.raised THEN st
    ELSE LET file_path == files[1]
             next ==
               IF ~IsCandidate(file_path, keep_file) THEN st
               ELSE IF DoRemove(dry_run)
                    THEN IF CanRemove(st.fs, file_path)
                         THEN [st EXCEPT
                                 !.fs = Unlink(st.fs, file_path),
                                 !.deleted_files = Append(@, file_path),
                                 !.candidates = Append(@, file_path)]
                         ELSE RemoveFailed(st, file_path)
                    ELSE [st EXCEPT !.deleted_files = Append(@, file_path),
                                    !.candidates = Append(@, file_path)]
         IN  DeleteLoop(Tail(files), keep_file, dry_run, next)

\* files.sort(key=getctime) raises when a file of the group cannot be
\* stat'd any more; min(files, key=len) reads no metadata
SortRaises(fsys, files, keep_strategy) ==
    /\ keep_strategy \in {"oldest", "newest"}
    /\ \E p \in Range(files) : ~CanStat(fsys, p)

\* print_summary and generate_report raise when the first file of a group
\* cannot be stat'd any more
GetsizeRaises(fsys, dups) ==
    \E i \in 1..Len(dups) : ~CanStat(fsys, dups[i].files[1])

(***************************************************************************)
(* FileDeduplicator.generate_report                                        *)
(***************************************************************************)
GroupInfo(fsys, g) ==
    LET file_size == os_path_getsize(fsys, g.files[1])
    IN  [hash |-> g.key, file_count |-> Len(g.files), file_size |-> file_size,
         space_saved |-> file_size * (Len(g.files) - 1), files |-> g.files]

RECURSIVE SumSaved(_)
SumSaved(infos) == IF infos = <<>> THEN 0 ELSE infos[1].space_saved + SumSaved(Tail(infos))

RECURSIVE SumCount(_)
SumCount(infos) == IF infos = <<>> THEN 0 ELSE infos[1].file_count + SumCount(Tail(infos))

\* the key of duplicate_groups.sort(key=space_saved, reverse=True): the
\* sort is stable and descending
ReportSortKeyAscending(info) == info.space_saved
ReportSortKey(info) == 0 - info.space_saved

\* the report dict
ReportOf(fsys, dups) ==
    LET infos == [i \in 1..Len(dups) |-> GroupInfo(fsys, dups[i])]
    IN  [total_duplicate_groups |-> Len(dups),
         total_duplicate_files |-> SumCount(infos),
         potential_space_saved |-> SumSaved(infos),
         duplicate_groups |->
            SortByKey(infos, [x \in Range(infos) |-> ReportSortKey(x)])]

NoReport == [total_duplicate_groups |-> 0, total_duplicate_files |-> 0,
             potential_space_saved |-> 0, duplicate_groups |-> <<>>]

\* open(output_file, 'w') succeeds unless the path is a directory
CanWrite(fsys, p) == p \notin Dirs

\* json.dump into output_file: the file is created or overwritten now
WriteFile(fsys, p, bytes) ==
    [q \in DOMAIN fsys \cup {p} |->
        IF q = p THEN File(bytes, MaxCtime + 1) ELSE fsys[q]]

\* main's normalisation of one --extensions value
NormalizeExtKeepCase(ext) == IF StartsWithDot(ext) THEN ext ELSE <<".">> \o ext
NormalizeExt(ext) == IF StartsWithDot(ext) THEN Lower(ext) ELSE <<".">> \o Lower(ext)

\* main's extensions list: None unless --extensions is given
NormalizeExtensions(raw) ==
    IF TruthySeq(raw)
    THEN Some([i \in 1..Len(raw.v) |-> NormalizeExt(raw.v[i])])
    ELSE NoneSeq

\* main's test before the resolver is run
DeleteRequestedOrScan(a) == a.delete \/ a.scan
DeleteRequested(a) == a.delete

(***************************************************************************)
(* The state of one run of main().                                         *)
(***************************************************************************)
VARIABLES
    fs,             \* the filesystem
    fs0,            \* the filesystem when the run started
    env,            \* what the environment does to the run: the file that
                    \* another process removes, whether the user interrupts
    vanished,       \* the paths removed by another process so far
    args,           \* the parsed command line
    pc,             \* where main() is
    exit_code,      \* -1 while running, then the process exit code
    ended,          \* how main() ended: "", "return", "missing",
                    \* "interrupt" or "error"
    stages,         \* the stages of main() completed so far, in order
    extensions,     \* main's normalised extension list
    size_groups,    \* find_duplicates' size_groups
    hashed,         \* the files passed to calculate_file_hash, in order
    duplicates,     \* main's duplicates dict
    report,         \* the report dict built by generate_report
    idx,            \* delete_duplicates: position in duplicates.items()
    deleted_files,  \* delete_duplicates' deleted_files
    resolved,       \* per group processed: the list, keep_file, candidates
    printed         \* the numbers in the last line main() printed

\* the state of a run of file_deduplicator.py
dedupVars == <<fs, fs0, walk, env, vanished, args, pc, exit_code, ended, stages,
               extensions, size_groups, hashed, duplicates, report, idx,
               deleted_files, resolved, printed>>

\* the state of a FileSync object (file_sync.py) during sync_files
VARIABLES
    source_dir,     \* the files under self.source, by relative path
    target_dir,     \* the files under self.target, by relative path
    source_dir0,    \* the files under self.source when sync_files started
    target_dir0,    \* the files under self.target when sync_files started
    mode,           \* self.mode
    sync_dry_run,   \* the dry_run argument of sync_files
    sync_pc,        \* where sync_files is
    new_files,      \* detect_changes' new_files still to be copied
    modified_files, \* detect_changes' modified_files still to be handled
    removed_files,  \* detect_changes' deleted_files still to be unlinked
    sync_log,       \* self.sync_log
    stats           \* the stats dict of sync_files

syncVars == <<source_dir, target_dir, source_dir0, target_dir0, mode,
              sync_dry_run, sync_pc, new_files, modified_files, removed_files,
              sync_log, stats>>

\* a FileSync object that is not running
SyncIdle ==
    /\ source_dir = <<>>
    /\ target_dir = <<>>
    /\ source_dir0 = <<>>
    /\ target_dir0 = <<>>
    /\ mode = "one_way"
    /\ sync_dry_run = FALSE
    /\ sync_pc = "idle"
    /\ new_files = <<>>
    /\ modified_files = <<>>
    /\ removed_files = {}
    /\ sync_log = <<>>
    /\ stats = <<>>

\* the state of BatchRenamer.execute_rename (batch_renamer.py)
VARIABLES
    dir_files,      \* the files of the directory: path -> content
    dir_files0,     \* the files when execute_rename was called
    rename_plans,   \* the rename_plans argument: pairs <<old_path, new_path>>
    rename_dry_run, \* the dry_run argument
    rename_pc,      \* where execute_rename is
    plan_idx,       \* the position of the loop in rename_plans
    success_count,  \* the local success_count
    rename_log      \* what happened to each plan processed so far

renameVars == <<dir_files, dir_files0, rename_plans, rename_dry_run, rename_pc,
                plan_idx, success_count, rename_log>>

\* no call of execute_rename
RenameIdle ==
    /\ dir_files = <<>>
    /\ dir_files0 = <<>>
    /\ rename_plans = <<>>
    /\ rename_dry_run = TRUE
    /\ rename_pc = "idle"
    /\ plan_idx = 1
    /\ success_count = 0
    /\ rename_log = <<>>

\* the state of a TaskScheduler (task_scheduler.py) and of the call of
\* execute_task in progress
VARIABLES
    tasks,          \* self.tasks: name -> Task
    tasks_before,   \* self.tasks when the call in progress started
    task_pc,        \* where execute_task is
    task_name,      \* the task_name argument of the call
    attempt,        \* the loop variable of the retry loop
    success,        \* the local success
    error_msg,      \* the local error_msg
    results,        \* how each attempt of the call ended, in order
    call_kind,      \* what the last call was: "unknown", "disabled" or "ran"
    calls           \* the number of calls of execute_task so far

taskVars == <<tasks, tasks_before, task_pc, task_name, attempt, success,
              error_msg, results, call_kind, calls>>

\* no TaskScheduler
TaskIdle ==
    /\ tasks = <<>>
    /\ tasks_before = <<>>
    /\ task_pc = "idle"
    /\ task_name = ""
    /\ attempt = 0
    /\ success = FALSE
    /\ error_msg = ""
    /\ results = <<>>
    /\ call_kind = ""
    /\ calls = 0

\* what a run of file_deduplicator.py leaves alone
NotDedup == <<syncVars, renameVars, taskVars>>

\* what sync_files leaves alone
NotSync == <<dedupVars, renameVars, taskVars>>

\* what execute_rename leaves alone
NotRename == <<dedupVars, syncVars, taskVars>>

\* what the TaskScheduler leaves alone
NotTask == <<dedupVars, syncVars, renameVars>>

vars == <<dedupVars, syncVars, renameVars, taskVars>>

DefaultChunkSize == 8192

DefaultArgs ==
    [directory |-> DirD, scan |-> FALSE, delete |-> FALSE, dry_run |-> FALSE,
     report |-> NoneSeq, extensions |-> NoneSeq, min_size |-> 0,
     max_size |-> NoneInt, keep |-> "oldest", chunk_size |-> DefaultChunkSize]

KeepChoices == {"oldest", "newest", "smallest_path"}

\* the trees with any subset of the four files, contents from C and
\* creation times from T
Trees(C, T) ==
    UNION {[S -> {File(c, t) : c \in C, t \in T}] : S \in SUBSET TreePaths}

\* the tree with file p, when present, changed by field
WithFlag(tree, p, field) ==
    [q \in DOMAIN tree |->
        IF q = p THEN [tree[q] EXCEPT ![field] = FALSE] ELSE tree[q]]

\* the whole filesystem: the tree and the regular file f outside it
WithOutside(tree) ==
    [q \in DOMAIN tree \cup {PathF} |->
        IF q = PathF THEN File(<<1>>, 1) ELSE tree[q]]

\* grouping and hashing: contents, one unreadable file, chunk sizes
InitHash ==
    \E tree \in Trees({<<>>, <<1>>, <<2>>, <<1, 2>>}, {1}),
       u \in TreePaths \cup {PathM},
       cs \in {-1, 0, 1, DefaultChunkSize} :
        /\ fs = WithOutside(WithFlag(tree, u, "readable"))
        /\ args = [DefaultArgs EXCEPT !.delete = TRUE, !.dry_run = TRUE,
                                      !.chunk_size = cs]

\* resolving: creation times, keep policies, execute and dry-run
InitResolve ==
    \E tree \in Trees({<<1>>, <<2>>}, 1..MaxCtime),
       k \in KeepChoices, dr \in BOOLEAN :
        /\ fs = WithOutside(tree)
        /\ args = [DefaultArgs EXCEPT !.delete = TRUE, !.dry_run = dr, !.keep = k]

ExtChoices ==
    { <<<<"j", "p", "g">>>>, <<<<".", "j", "p", "g">>>>,
      <<<<"J", "P", "G">>>>, <<<<".", "J", "P", "G">>>>,
      <<<<"T", "x", "t">>>>, <<<<".", "t", "x", "t">>, <<"J", "p", "g">>>> }

\* the extension filter: requested extensions, one file that cannot be stat'd
InitExt ==
    \E tree \in Trees({<<>>, <<1>>}, {1}),
       u \in TreePaths \cup {PathM},
       e \in {NoneSeq} \cup {Some(x) : x \in ExtChoices} :
        /\ fs = WithOutside(WithFlag(tree, u, "statable"))
        /\ args = [DefaultArgs EXCEPT !.scan = TRUE, !.extensions = e]

\* the size filter: sizes 0..2 against --min-size and --max-size
InitSize ==
    \E tree \in Trees({<<>>, <<1>>, <<1, 2>>}, {1}),
       mn \in 0..MaxSizeArg,
       mx \in {NoneInt} \cup {Some(x) : x \in (0 - 1)..MaxSizeArg} :
        /\ fs = WithOutside(tree)
        /\ args = [DefaultArgs EXCEPT !.scan = TRUE, !.min_size = mn, !.max_size = mx]

\* the command line: directory argument, mode flags, report path
InitFlags ==
    \E tree \in Trees({<<1>>, <<2>>}, {1}),
       d \in {DirD, PathF, PathM},
       sc \in BOOLEAN, de \in BOOLEAN, dr \in BOOLEAN,
       rp \in {NoneSeq, Some(PathR), Some(PathA), Some(DirS)} :
        /\ fs = WithOutside(tree)
        /\ args = [DefaultArgs EXCEPT !.directory = d, !.scan = sc, !.delete = de,
                                      !.dry_run = dr, !.report = rp]

\* the environment that leaves the run alone
NoEnv == [doomed |-> NoneSeq, sigint |-> FALSE]

\* the walk order: every listing order, all policies, equal creation times
InitOrder ==
    \E tree \in Trees({<<1>>, <<2>>}, {1}),
       w \in WalkOrders, k \in KeepChoices :
        /\ fs = WithOutside(tree)
        /\ args = [DefaultArgs EXCEPT !.delete = TRUE, !.dry_run = TRUE, !.keep = k]
        /\ walk = w
        /\ env = NoEnv

\* failing removals: up to two files that os.remove cannot remove
InitRemove ==
    \E tree \in Trees({<<1>>, <<2>>}, {1}),
       u1 \in TreePaths \cup {PathM}, u2 \in TreePaths \cup {PathM},
       k \in KeepChoices, cs \in {0, DefaultChunkSize} :
        /\ fs = WithOutside(WithFlag(WithFlag(tree, u1, "removable"), u2, "removable"))
        /\ args = [DefaultArgs EXCEPT !.delete = TRUE, !.keep = k, !.chunk_size = cs]
        /\ walk = Listing
        /\ env = NoEnv

\* a file that another process removes after the hashing
InitVanish ==
    \E tree \in Trees({<<1>>, <<2>>}, {1}),
       v \in TreePaths, k \in KeepChoices, dr \in BOOLEAN,
       rp \in {NoneSeq, Some(PathR)} :
        /\ fs = WithOutside(tree)
        /\ args = [DefaultArgs EXCEPT !.delete = TRUE, !.dry_run = dr,
                                      !.keep = k, !.report = rp]
        /\ walk = Listing
        /\ env = [doomed |-> Some(v), sigint |-> FALSE]

\* the report: groups of different sizes, with and without --delete
InitReport ==
    \E tree \in Trees({<<>>, <<1>>, <<1, 2>>}, {1}), de \in BOOLEAN :
        /\ fs = WithOutside(tree)
        /\ args = [DefaultArgs EXCEPT !.scan = TRUE, !.delete = de,
                                      !.report = Some(PathR)]
        /\ walk = Listing
        /\ env = NoEnv

\* the user interrupts the run
InitInterrupt ==
    \E tree \in Trees({<<1>>}, {1}),
       d \in {DirD, PathF, PathM}, sc \in BOOLEAN, de \in BOOLEAN :
        /\ fs = WithOutside(tree)
        /\ args = [DefaultArgs EXCEPT !.directory = d, !.scan = sc, !.delete = de]
        /\ walk = Listing
        /\ env = [doomed |-> NoneSeq, sigint |-> TRUE]

\* no run of file_deduplicator.py
DedupIdle ==
    /\ fs = <<>>
    /\ fs0 = <<>>
    /\ walk = Listing
    /\ env = NoEnv
    /\ vanished = {}
    /\ args = DefaultArgs
    /\ pc = "idle"
    /\ exit_code = 0 - 1
    /\ ended = ""
    /\ stages = <<>>
    /\ extensions = NoneSeq
    /\ size_groups = <<>>
    /\ hashed = <<>>
    /\ duplicates = <<>>
    /\ report = NoReport
    /\ idx = 1
    /\ deleted_files = <<>>
    /\ resolved = <<>>
    /\ printed = <<>>

Init ==
    /\ \/ /\ InitHash \/ InitResolve \/ InitExt \/ InitSize \/ InitFlags
          /\ walk = Listing
          /\ env = NoEnv
       \/ InitOrder
       \/ InitRemove
       \/ InitVanish
       \/ InitReport
       \/ InitInterrupt
    /\ fs0 = fs
    /\ vanished = {}
    /\ pc = "start"
    /\ exit_code = 0 - 1
    /\ ended = ""
    /\ stages = <<>>
    /\ extensions = NoneSeq
    /\ size_groups = <<>>
    /\ hashed = <<>>
    /\ duplicates = <<>>
    /\ report = NoReport
    /\ idx = 1
    /\ deleted_files = <<>>
    /\ resolved = <<>>
    /\ printed = <<>>
    /\ SyncIdle
    /\ RenameIdle
    /\ TaskIdle

(***************************************************************************)
(* The environment.                                                        *)
(***************************************************************************)
\* another process removes a file after the hashing, before a later stage
EnvVanish ==
    /\ pc \in {"summary", "report", "delete"}
    /\ env.doomed.some
    /\ env.doomed.v \in DOMAIN fs
    /\ env.doomed.v \notin vanished
    /\ fs' = Unlink(fs, env.doomed.v)
    /\ vanished' = vanished \cup {env.doomed.v}
    /\ UNCHANGED <<fs0, walk, env, args, pc, exit_code, ended, stages,
                   extensions, size_groups, hashed, duplicates, report, idx,
                   deleted_files, resolved, printed>>
    /\ UNCHANGED NotDedup

(***************************************************************************)
(* main()                                                                  *)
(***************************************************************************)
\* the exit code of sys.exit(1) in the handler of KeyboardInterrupt
InterruptExitCodeZero == 1 - 1
InterruptExitCode == 1

\* the exit code of sys.exit(1) in the handler of Exception
ErrorExitCode == 1

\* the user interrupts inside the try block: KeyboardInterrupt is caught
\* and main() calls sys.exit(1)
MainInterrupted ==
    /\ pc \in {"dispatch", "summary", "report", "delete"}
    /\ env.sigint
    /\ pc' = "exit"
    /\ exit_code' = InterruptExitCode
    /\ ended' = "interrupt"
    /\ UNCHANGED <<fs, fs0, walk, env, vanished, args, stages, extensions,
                   size_groups, hashed, duplicates, report, idx,
                   deleted_files, resolved, printed>>
    /\ UNCHANGED NotDedup

\* the directory check fails: sys.exit(1)
MainDirMissing ==
    /\ pc = "start"
    /\ ~os_path_exists(fs, args.directory)
    /\ pc' = "exit"
    /\ exit_code' = 1
    /\ ended' = "missing"
    /\ UNCHANGED <<fs, fs0, walk, env, vanished, args, stages, extensions,
                   size_groups, hashed, duplicates, report, idx,
                   deleted_files, resolved, printed>>
    /\ UNCHANGED NotDedup

\* the directory check passes; the extension list is normalised
MainSetup ==
    /\ pc = "start"
    /\ os_path_exists(fs, args.directory)
    /\ extensions' = NormalizeExtensions(args.extensions)
    /\ pc' = "dispatch"
    /\ UNCHANGED <<fs, fs0, walk, env, vanished, args, exit_code, ended,
                   stages, size_groups, hashed, duplicates, report, idx,
                   deleted_files, resolved, printed>>
    /\ UNCHANGED NotDedup

\* neither --scan nor --delete: the usage hint, then a normal return
MainNoAction ==
    /\ pc = "dispatch"
    /\ ~(args.scan \/ args.delete)
    /\ pc' = "exit"
    /\ exit_code' = 0
    /\ ended' = "return"
    /\ UNCHANGED <<fs, fs0, walk, env, vanished, args, stages, extensions,
                   size_groups, hashed, duplicates, report, idx,
                   deleted_files, resolved, printed>>
    /\ UNCHANGED NotDedup

\* find_duplicates; an empty result ends the run
MainFind ==
    /\ pc = "dispatch"
    /\ args.scan \/ args.delete
    /\ LET r == find_duplicates(fs, args.chunk_size, args.directory, extensions,
                                args.min_size, args.max_size)
       IN  /\ size_groups' = r.size_groups
           /\ hashed' = r.hashed
           /\ duplicates' = r.duplicates
           /\ pc' = IF r.duplicates # <<>> THEN "summary" ELSE "exit"
           /\ exit_code' = IF r.duplicates # <<>> THEN exit_code ELSE 0
           /\ ended' = IF r.duplicates # <<>> THEN ended ELSE "return"
    /\ stages' = Append(stages, "find")
    /\ UNCHANGED <<fs, fs0, walk, env, vanished, args, extensions, report,
                   idx, deleted_files, resolved, printed>>
    /\ UNCHANGED NotDedup

\* print_summary; an exception of getsize goes to main's handler
MainSummary ==
    /\ pc = "summary"
    /\ IF GetsizeRaises(fs, duplicates)
       THEN /\ pc' = "exit"
            /\ exit_code' = ErrorExitCode
            /\ ended' = "error"
            /\ UNCHANGED stages
       ELSE /\ pc' = "report"
            /\ stages' = Append(stages, "summary")
            /\ UNCHANGED <<exit_code, ended>>
    /\ UNCHANGED <<fs, fs0, walk, env, vanished, args, extensions, size_groups,
                   hashed, duplicates, report, idx, deleted_files, resolved,
                   printed>>
    /\ UNCHANGED NotDedup

\* main reaches the report after print_summary has returned
ReportStageEarly == pc \in {"summary", "report"}
ReportStage == pc = "report"

\* generate_report when --report is given; a failed write is caught, an
\* exception of getsize goes to main's handler before anything is written
MainReport ==
    /\ ReportStage
    /\ TruthySeq(args.report)
    /\ IF GetsizeRaises(fs, duplicates)
       THEN /\ pc' = "exit"
            /\ exit_code' = ErrorExitCode
            /\ ended' = "error"
            /\ UNCHANGED <<fs, report, stages>>
       ELSE /\ report' = ReportOf(fs, duplicates)
            /\ fs' = IF CanWrite(fs, args.report.v)
                     THEN WriteFile(fs, args.report.v, ReportBytes)
                     ELSE fs
            /\ stages' = Append(stages, "report")
            /\ pc' = IF DeleteRequested(args) THEN "delete" ELSE "exit"
            /\ exit_code' = IF DeleteRequested(args) THEN exit_code ELSE 0
            /\ ended' = IF DeleteRequested(args) THEN ended ELSE "return"
    /\ UNCHANGED <<fs0, walk, env, vanished, args, extensions, size_groups,
                   hashed, duplicates, idx, deleted_files, resolved, printed>>
    /\ UNCHANGED NotDedup

\* no --report
MainSkipReport ==
    /\ ReportStage
    /\ ~TruthySeq(args.report)
    /\ pc' = IF DeleteRequested(args) THEN "delete" ELSE "exit"
    /\ exit_code' = IF DeleteRequested(args) THEN exit_code ELSE 0
    /\ ended' = IF DeleteRequested(args) THEN ended ELSE "return"
    /\ UNCHANGED <<fs, fs0, walk, env, vanished, args, stages, extensions,
                   size_groups, hashed, duplicates, report, idx,
                   deleted_files, resolved, printed>>
    /\ UNCHANGED NotDedup

\* delete_duplicates: one group; an exception of the sort, or one that
\* leaves the inner loop, goes to main's handler
MainDeleteGroup ==
    /\ pc = "delete"
    /\ idx <= Len(duplicates)
    /\ IF SortRaises(fs, duplicates[idx].files, args.keep)
       THEN /\ pc' = "exit"
            /\ exit_code' = ErrorExitCode
            /\ ended' = "error"
            /\ UNCHANGED <<fs, duplicates, deleted_files, resolved, idx>>
       ELSE LET files == SortedFiles(fs, duplicates[idx].files, args.keep)
                keep_file == KeepFile(files, args.keep)
                st == DeleteLoop(files, keep_file, args.dry_run,
                                 [fs |-> fs, deleted_files |-> deleted_files,
                                  candidates |-> <<>>, raised |-> FALSE])
            IN  /\ duplicates' = [duplicates EXCEPT ![idx].files = files]
                /\ fs' = st.fs
                /\ deleted_files' = st.deleted_files
                /\ resolved' = Append(resolved, [group |-> duplicates[idx].files,
                                                 keep |-> keep_file,
                                                 candidates |-> st.candidates])
                /\ idx' = idx + 1
                /\ pc' = IF st.raised THEN "exit" ELSE pc
                /\ exit_code' = IF st.raised THEN ErrorExitCode ELSE exit_code
                /\ ended' = IF st.raised THEN "error" ELSE ended
    /\ UNCHANGED <<fs0, walk, env, vanished, args, stages, extensions,
                   size_groups, hashed, report, printed>>
    /\ UNCHANGED NotDedup

\* delete_duplicates returns; main prints the number of deleted files
\* and returns
MainDeleteDone ==
    /\ pc = "delete"
    /\ idx > Len(duplicates)
    /\ stages' = Append(stages, "delete")
    /\ printed' = <<Len(deleted_files)>>
    /\ pc' = "exit"
    /\ exit_code' = 0
    /\ ended' = "return"
    /\ UNCHANGED <<fs, fs0, walk, env, vanished, args, extensions, size_groups,
                   hashed, duplicates, report, idx, deleted_files, resolved>>
    /\ UNCHANGED NotDedup

Next ==
    \/ EnvVanish
    \/ MainInterrupted
    \/ MainDirMissing
    \/ MainSetup
    \/ MainNoAction
    \/ MainFind
    \/ MainSummary
    \/ MainReport
    \/ MainSkipReport
    \/ MainDeleteGroup
    \/ MainDeleteDone

Spec == Init /\ [][Next]_vars

(***************************************************************************)
(* Vocabulary of the properties.                                           *)
(***************************************************************************)
\* find_duplicates has run
Scanned == InList("find", stages)

\* find_duplicates has just returned: duplicates is its result
Found == stages = <<"find">>

\* the run has ended
Exited == pc = "exit"

\* the regular files under the root directory of the run, as they were
\* when the run started
UnderRoot == Range(os_walk(fs0, args.directory))
RootPaths == {os_path_join(e.root, e.file) : e \in UnderRoot}
NameOf(p) == (CHOOSE e \in Range(Listing) : os_path_join(e.root, e.file) = p).file

SizeOf(p) == Len(fs0[p].content)

\* what a listing of the filesystem shows: the paths and their contents
Snapshot(f) == [p \in DOMAIN f |-> f[p].content]

\* the extension filter as specified: no list, or the lower-cased extension
\* of the file is one of the normalised extensions
ExtMatches(p) ==
    ~TruthySeq(extensions) \/ InList(Lower(splitext_ext(NameOf(p))), extensions.v)

\* the size filter as specified: inclusive on both ends
SizeMatches(p) ==
    /\ args.min_size <= SizeOf(p)
    /\ args.max_size.some => SizeOf(p) <= args.max_size.v

\* the positions of a path in a dict of lists
Positions(d, p) ==
    {<<i, j>> \in (1..Len(d)) \X (1..4) : j <= Len(d[i].files) /\ d[i].files[j] = p}
InDict(d, p) == Positions(d, p) # {}
DictFiles(d) == UNION {Range(d[i].files) : i \in 1..Len(d)}

\* two paths are members of one duplicate group
SameGroup(p, q) ==
    \E i \in 1..Len(duplicates) :
        p \in Range(duplicates[i].files) /\ q \in Range(duplicates[i].files)

\* a dict as a mapping, its insertion order forgotten
AsMapping(d) == {<<d[i].key, d[i].files>> : i \in 1..Len(d)}

\* the filesystem without the paths in U
Without(f, U) == [q \in DOMAIN f \ U |-> f[q]]

(***************************************************************************)
(* C1.  For every duplicate group of N >= 2 paths that delete_duplicates   *)
(* has processed, under each keep policy, exactly one path is keep_file    *)
(* and the other N-1 paths are the deletion candidates: keep plus          *)
(* candidates is the group, and keep is not a candidate.                   *)
(***************************************************************************)
Thm_C1_KeepAndCandidates ==
    \A i \in 1..Len(resolved) :
        LET r == resolved[i]
        IN  Len(r.group) >= 2 =>
              /\ r.keep \in Range(r.group)
              /\ Len(r.candidates) = Len(r.group) - 1
              /\ Range(r.candidates) \cup {r.keep} = Range(r.group)
              /\ r.keep \notin Range(r.candidates)

Wit_C1_GroupOfThreeResolved ==
    /\ Exited
    /\ args.keep = "newest"
    /\ ~args.dry_run
    /\ \E i \in 1..Len(resolved) : Len(resolved[i].group) >= 3

(***************************************************************************)
(* C2 as stated.  A run in dry-run mode never changes the filesystem: the  *)
(* paths and their contents are the same before and after (the paths that  *)
(* another process removed left aside).                                    *)
(***************************************************************************)
Cex_C2_DryRunChangesNothing ==
    args.dry_run => Snapshot(Without(fs, vanished)) = Snapshot(Without(fs0, vanished))

(***************************************************************************)
(* C2 amended.  A run in dry-run mode removes no file and changes no path  *)
(* other than the report file named by --report; without --report the      *)
(* paths and their contents are the same before and after.                 *)
(***************************************************************************)
Thm_C2_DryRunChangesOnlyReport ==
    args.dry_run =>
        LET out == IF TruthySeq(args.report) THEN {args.report.v} ELSE {}
        IN  /\ DOMAIN fs0 \ vanished \subseteq DOMAIN fs
            /\ DOMAIN fs \ DOMAIN fs0 \subseteq out
            /\ \A p \in DOMAIN fs0 \ (out \cup vanished) :
                  fs[p].content = fs0[p].content

Wit_C2_DryRunWithCandidates ==
    /\ Exited
    /\ args.dry_run
    /\ args.delete
    /\ Len(deleted_files) >= 2
    /\ InList("report", stages)

(***************************************************************************)
(* C3.  A file is removed only if --delete is given and --dry-run is not:  *)
(* a run without --delete removes nothing and a run with --dry-run         *)
(* removes nothing.                                                        *)
(***************************************************************************)
Thm_C3_RemovalNeedsDeleteNoDryRun ==
    DOMAIN fs0 \ (DOMAIN fs \cup vanished) # {} => args.delete /\ ~args.dry_run

Wit_C3_ScanOnlyWithDuplicates ==
    /\ Exited
    /\ args.scan
    /\ ~args.delete
    /\ ~args.dry_run
    /\ duplicates # <<>>
    /\ DOMAIN fs0 \subseteq DOMAIN fs

(***************************************************************************)
(* C4 as stated.  No duplicate group returned by find_duplicates contains  *)
(* two files of different byte size, for every accepted configuration.     *)
(***************************************************************************)
Cex_C4_GroupsHaveOneSize ==
    \A i \in 1..Len(duplicates) :
        \A p, q \in Range(duplicates[i].files) : SizeOf(p) = SizeOf(q)

(***************************************************************************)
(* C5 as stated.  Two files that pass the scan filters and are readable    *)
(* are in the same group if and only if their contents are identical, and  *)
(* a file whose content matches no other such file is in no group.         *)
(***************************************************************************)
Eligible ==
    {p \in RootPaths : /\ CanStat(fs0, p)
                       /\ CanOpen(fs0, p)
                       /\ ExtMatches(p)
                       /\ SizeMatches(p)}

Cex_C5_GroupedIffSameContent ==
    Scanned =>
        /\ \A p, q \in Eligible :
              p # q => (SameGroup(p, q) <=> fs0[p].content = fs0[q].content)
        /\ \A p \in Eligible :
              (\A q \in Eligible \ {p} : fs0[q].content # fs0[p].content)
                  => ~InDict(duplicates, p)

(***************************************************************************)
(* C6.  scan_directory is complete and partitions its input: every regular *)
(* file under the root that matches the extension and size filters and can *)
(* be stat'd is in exactly one size bucket, at one position, the bucket's  *)
(* key is the file's size, and no file is in two buckets or twice in one.  *)
(***************************************************************************)
Thm_C6_ScanCompletePartition ==
    Scanned =>
        /\ \A p \in RootPaths :
              (CanStat(fs0, p) /\ ExtMatches(p) /\ SizeMatches(p))
                  => Cardinality(Positions(size_groups, p)) = 1
        /\ \A p \in DictFiles(size_groups) :
              /\ Cardinality(Positions(size_groups, p)) = 1
              /\ \A pos \in Positions(size_groups, p) :
                    size_groups[pos[1]].key = SizeOf(p)
        /\ \A i, j \in 1..Len(size_groups) :
              i # j => size_groups[i].key # size_groups[j].key

Wit_C6_TwoBucketsOneExcluded ==
    /\ Scanned
    /\ Len(size_groups) >= 2
    /\ \E i \in 1..Len(size_groups) : Len(size_groups[i].files) >= 2
    /\ \E p \in RootPaths : ~InDict(size_groups, p)

(***************************************************************************)
(* C7 as stated.  The size filter is inclusive on both ends, max_size = 0  *)
(* included: a file is kept if and only if min_size <= size <= max_size,   *)
(* and if and only if size >= min_size when max_size is absent.            *)
(***************************************************************************)
Cex_C7_SizeFilterInclusive ==
    Scanned =>
        \A p \in RootPaths :
            (CanStat(fs0, p) /\ ExtMatches(p))
                => (InDict(size_groups, p) <=> SizeMatches(p))

(***************************************************************************)
(* C8.  The extension filter is case-insensitive and normalised to the     *)
(* leading dot: requested as jpg, .jpg, JPG or .JPG (no size filter), the  *)
(* scanner keeps exactly the files whose lower-cased extension is .jpg.    *)
(***************************************************************************)
JpgForms == { <<<<"j", "p", "g">>>>, <<<<".", "j", "p", "g">>>>,
              <<<<"J", "P", "G">>>>, <<<<".", "J", "P", "G">>>> }

Thm_C8_ExtensionFilterNormalised ==
    (/\ Scanned
     /\ args.extensions.some
     /\ args.extensions.v \in JpgForms
     /\ args.min_size = 0
     /\ ~args.max_size.some)
        => DictFiles(size_groups) =
             {p \in RootPaths :
                 /\ CanStat(fs0, p)
                 /\ Lower(splitext_ext(NameOf(p))) = <<".", "j", "p", "g">>}

Wit_C8_UpperCaseRequestKeepsBoth ==
    /\ Scanned
    /\ args.extensions = Some(<<<<"J", "P", "G">>>>)
    /\ DictFiles(size_groups) = {PathA, PathB}
    /\ {PathC, PathH} \subseteq RootPaths

(***************************************************************************)
(* C9 as stated.  If the root path does not exist or is not a directory,   *)
(* the run fails before any scanning, hashing or deletion and ends with a  *)
(* non-zero exit code.                                                     *)
(***************************************************************************)
Cex_C9_BadRootIsSetupError ==
    args.directory \notin Dirs =>
        /\ stages = <<>>
        /\ Exited => exit_code # 0

(***************************************************************************)
(* C10 as stated.  A file of a candidate size bucket that cannot be opened *)
(* is in no group, and the other files are grouped exactly as if that file *)
(* were absent.                                                            *)
(***************************************************************************)
Unreadable == {p \in Range(hashed) : ~CanOpen(fs0, p)}

Cex_C10_UnreadableAsIfAbsent ==
    Found =>
        /\ \A p \in Unreadable : ~InDict(duplicates, p)
        /\ AsMapping(duplicates) =
             AsMapping(find_duplicates(Without(fs0, Unreadable), args.chunk_size,
                                       args.directory, extensions,
                                       args.min_size, args.max_size).duplicates)

(***************************************************************************)
(* Vocabulary of the keep policies.                                        *)
(***************************************************************************)
\* generate_report has written the report file
ReportWritten ==
    InList("report", stages) /\ TruthySeq(args.report) /\ CanWrite(fs0, args.report.v)

\* the creation time delete_duplicates reads for a file: the report file,
\* when it was written over a scanned file, is the newest file
CtimeAt(p) ==
    IF ReportWritten /\ args.report.v = p THEN MaxCtime + 1 ELSE fs0[p].ctime

\* the position of a path in a list without repetitions
IndexOf(list, p) == CHOOSE i \in 1..Len(list) : list[i] = p

\* the order of the characters of the paths (their code points)
CodePoints == <<".", "/">> \o UpperCase \o LowerCase
Ord(c) == CHOOSE i \in 1..Len(CodePoints) : CodePoints[i] = c

\* a < b as Python compares strings
LexLess(a, b) ==
    \E k \in 1..(Len(a) + 1) :
        /\ \A j \in 1..(k - 1) : j <= Len(b) /\ a[j] = b[j]
        /\ k <= Len(b)
        /\ k <= Len(a) => Ord(a[k]) < Ord(b[k])

(***************************************************************************)
(* C11.  With keep policy 'oldest' the kept file of each group has the     *)
(* minimum creation time of the group, and among the members with that     *)
(* minimum it is the one that comes first in the group's order.            *)
(***************************************************************************)
Thm_C11_OldestKeepsFirstMinimum ==
    args.keep = "oldest" =>
        \A i \in 1..Len(resolved) :
            LET r == resolved[i]
            IN  \A q \in Range(r.group) :
                    /\ CtimeAt(r.keep) <= CtimeAt(q)
                    /\ CtimeAt(q) = CtimeAt(r.keep)
                          => IndexOf(r.group, r.keep) <= IndexOf(r.group, q)

Wit_C11_OldestTieNotAtHead ==
    /\ Exited
    /\ args.keep = "oldest"
    /\ \E i \in 1..Len(resolved) :
          LET r == resolved[i]
          IN  /\ Len(r.group) >= 3
              /\ r.keep # r.group[1]
              /\ \E q \in Range(r.group) \ {r.keep} : CtimeAt(q) = CtimeAt(r.keep)

(***************************************************************************)
(* C12 as stated.  With keep policy 'newest' the kept file of each group   *)
(* has the maximum creation time of the group, and among the members with  *)
(* that maximum it is the one that comes first in the group's order.       *)
(***************************************************************************)
Cex_C12_NewestKeepsFirstMaximum ==
    args.keep = "newest" =>
        \A i \in 1..Len(resolved) :
            LET r == resolved[i]
            IN  \A q \in Range(r.group) :
                    /\ CtimeAt(r.keep) >= CtimeAt(q)
                    /\ CtimeAt(q) = CtimeAt(r.keep)
                          => IndexOf(r.group, r.keep) <= IndexOf(r.group, q)

(***************************************************************************)
(* C12 amended.  With keep policy 'newest' the kept file of each group has *)
(* the maximum creation time of the group, and among the members with that *)
(* maximum it is the one that comes last in the group's order.             *)
(***************************************************************************)
Thm_C12_NewestKeepsLastMaximum ==
    args.keep = "newest" =>
        \A i \in 1..Len(resolved) :
            LET r == resolved[i]
            IN  \A q \in Range(r.group) :
                    /\ CtimeAt(r.keep) >= CtimeAt(q)
                    /\ CtimeAt(q) = CtimeAt(r.keep)
                          => IndexOf(r.group, r.keep) >= IndexOf(r.group, q)

Wit_C12_NewestTieNotAtEnd ==
    /\ Exited
    /\ args.keep = "newest"
    /\ \E i \in 1..Len(resolved) :
          LET r == resolved[i]
          IN  /\ Len(r.group) >= 3
              /\ r.keep # r.group[Len(r.group)]
              /\ \E q \in Range(r.group) \ {r.keep} : CtimeAt(q) = CtimeAt(r.keep)

(***************************************************************************)
(* C13 as stated.  With keep policy 'smallest_path' the kept file of each  *)
(* group has the fewest characters, and among the members of that length   *)
(* it is the lexicographically smallest, whatever the order of the group.  *)
(***************************************************************************)
Cex_C13_SmallestPathLexicographic ==
    args.keep = "smallest_path" =>
        \A i \in 1..Len(resolved) :
            LET r == resolved[i]
            IN  \A q \in Range(r.group) :
                    /\ Len(r.keep) <= Len(q)
                    /\ Len(q) = Len(r.keep) => ~LexLess(q, r.keep)

(***************************************************************************)
(* C13 amended.  With keep policy 'smallest_path' the kept file of each    *)
(* group has the fewest characters, and among the members of that length   *)
(* it is the one that comes first in the group's order.                    *)
(***************************************************************************)
Thm_C13_SmallestPathFirstShortest ==
    args.keep = "smallest_path" =>
        \A i \in 1..Len(resolved) :
            LET r == resolved[i]
            IN  \A q \in Range(r.group) :
                    /\ Len(r.keep) <= Len(q)
                    /\ Len(q) = Len(r.keep)
                          => IndexOf(r.group, r.keep) <= IndexOf(r.group, q)

Wit_C13_FirstShortestNotSmallest ==
    /\ Exited
    /\ args.keep = "smallest_path"
    /\ \E i \in 1..Len(resolved) :
          LET r == resolved[i]
          IN  \E q \in Range(r.group) :
                  Len(q) = Len(r.keep) /\ LexLess(q, r.keep)

\* the run has entered delete_duplicates: the summary, and the report when
\* one is requested, are behind it
InDeleteStage ==
    /\ DeleteRequested(args)
    /\ pc \in {"delete", "exit"}
    /\ InList("summary", stages)
    /\ TruthySeq(args.report) => InList("report", stages)

\* the candidates of a resolved group whose removal failed
FailedOf(r) == {q \in Range(r.candidates) : q \notin Range(deleted_files)}

(***************************************************************************)
(* C14.  In execute mode a removal that fails (permission error, file      *)
(* already gone) does not end the run: every other member of the group but *)
(* the kept one is still a candidate, every candidate that can be removed  *)
(* is removed, in that group and in the later ones, and the run returns    *)
(* after the last group.  (Policies 'oldest' and 'newest' read the         *)
(* creation times before any removal; a file gone by then is the case of   *)
(* C15, so files vanish here under 'smallest_path' only.)                  *)
(***************************************************************************)
Thm_C14_FailedRemovalDoesNotStopOthers ==
    (/\ InDeleteStage
     /\ ~args.dry_run
     /\ ~env.sigint
     /\ vanished = {} \/ args.keep = "smallest_path")
    => /\ ended # "error"
       /\ \A i \in 1..Len(resolved) :
              LET r == resolved[i]
              IN  /\ Range(r.candidates) = Range(r.group) \ {r.keep}
                  /\ \A q \in Range(r.candidates) :
                         (q \notin vanished /\ CanRemove(fs0, q))
                             => (q \in Range(deleted_files) /\ q \notin DOMAIN fs)
       /\ Exited => (ended = "return" /\ Len(resolved) = Len(duplicates))

Wit_C14_RemovalAfterFailedRemoval ==
    /\ Exited
    /\ ~args.dry_run
    /\ \E i \in 1..Len(resolved) :
          LET c == resolved[i].candidates
          IN  \E a \in 1..Len(c), b \in 1..Len(c) :
                  /\ a < b
                  /\ c[a] \in FailedOf(resolved[i])
                  /\ c[b] \in Range(deleted_files)
                  /\ c[b] \notin DOMAIN fs

(***************************************************************************)
(* C15 as stated.  A file that vanishes after the hashing, before the      *)
(* summary, the report, the keep policy or the removal reads it, does not  *)
(* end the run: under every keep policy the run returns normally and every *)
(* group has been resolved.                                                *)
(***************************************************************************)
Cex_C15_VanishedFileIsRecoverable ==
    (Exited /\ vanished # {}) =>
        /\ ended = "return"
        /\ exit_code = 0
        /\ DeleteRequested(args) => Len(resolved) = Len(duplicates)

\* the number of removals delete_duplicates attempted
RECURSIVE Attempted(_)
Attempted(rs) == IF rs = <<>> THEN 0 ELSE Len(rs[1].candidates) + Attempted(Tail(rs))

(***************************************************************************)
(* C16 as stated.  After an execute-mode run the final summary shows the   *)
(* number of removals attempted and the number that succeeded.             *)
(***************************************************************************)
Cex_C16_SummaryShowsAttemptedAndDeleted ==
    (Exited /\ ended = "return" /\ InList("delete", stages) /\ ~args.dry_run) =>
        /\ InList(Len(deleted_files), printed)
        /\ InList(Attempted(resolved), printed)

\* generate_report has built its report
ReportBuilt == InList("report", stages)

\* the sum of space_saved over the first n entries of a list of groups
RECURSIVE SavedUpTo(_, _)
SavedUpTo(g, n) == IF n = 0 THEN 0 ELSE SavedUpTo(g, n - 1) + g[n].space_saved

(***************************************************************************)
(* C17.  The report has one entry for each duplicate group; each entry's   *)
(* space_saved is file_size * (file_count - 1), where file_count is the    *)
(* number of files of the group and file_size the size of its first file;  *)
(* potential_space_saved is the sum of space_saved over the entries; and   *)
(* space_saved never increases from one entry to the next.                 *)
(***************************************************************************)
Thm_C17_ReportArithmeticAndOrder ==
    ReportBuilt =>
        LET g == report.duplicate_groups
        IN  /\ Len(g) = Len(duplicates)
            /\ \A k \in 1..Len(duplicates) :
                   \E i \in 1..Len(g) :
                       /\ g[i].hash = duplicates[k].key
                       /\ Range(g[i].files) = Range(duplicates[k].files)
            /\ \A i \in 1..Len(g) :
                   /\ g[i].file_count = Len(g[i].files)
                   /\ g[i].file_size = SizeOf(g[i].files[1])
                   /\ g[i].space_saved = g[i].file_size * (g[i].file_count - 1)
            /\ report.potential_space_saved = SavedUpTo(g, Len(g))
            /\ \A i \in 1..Len(g), j \in 1..Len(g) :
                   i < j => g[i].space_saved >= g[j].space_saved

Wit_C17_ReportReordersGroups ==
    /\ ReportBuilt
    /\ Len(report.duplicate_groups) >= 2
    /\ report.duplicate_groups[1].hash # duplicates[1].key
    /\ report.duplicate_groups[1].space_saved > report.duplicate_groups[2].space_saved
    /\ report.potential_space_saved > report.duplicate_groups[1].space_saved

\* the file named by --report has been created or rewritten during the run
ReportFileNew ==
    /\ TruthySeq(args.report)
    /\ args.report.v \in DOMAIN fs
    /\ args.report.v \in DOMAIN fs0 => fs[args.report.v] # fs0[args.report.v]

(***************************************************************************)
(* C18 as stated.  The report file is written only when the whole run has  *)
(* completed, the deletion stage included when --delete is given: while it *)
(* exists the run has returned normally and the deletion stage is behind.  *)
(***************************************************************************)
Cex_C18_ReportAfterFullPipeline ==
    ReportFileNew =>
        /\ Exited
        /\ ended = "return"
        /\ DeleteRequested(args) => InList("delete", stages)

(***************************************************************************)
(* C18 amended.  The report file is written when the scan, the hashing and *)
(* the summary have completed and before the deletion stage starts: a run  *)
(* that ended before its report stage leaves no report file, and no group  *)
(* is resolved before the report stage of a run with --report.             *)
(***************************************************************************)
Thm_C18_ReportAfterSummaryBeforeDeletion ==
    /\ ReportFileNew =>
           /\ Len(stages) >= 3
           /\ SubSeq(stages, 1, 3) = <<"find", "summary", "report">>
    /\ (TruthySeq(args.report) /\ (pc = "delete" \/ resolved # <<>>)) =>
           /\ ReportBuilt
           /\ CanWrite(fs0, args.report.v) =>
                  \/ ReportFileNew
                  \/ args.report.v \in Range(deleted_files) \cup vanished

Wit_C18_ReportLeftByAbortedDeletion ==
    /\ Exited
    /\ ended = "error"
    /\ DeleteRequested(args)
    /\ ~InList("delete", stages)
    /\ ReportFileNew

(***************************************************************************)
(* C19.  A run whose target directory is missing, or that the user         *)
(* interrupts, exits with a non-zero code.  Every other run that is not    *)
(* ended by an exception completes and exits with code 0, also when it     *)
(* finds no files or no duplicates; and a run that nobody interrupts and   *)
(* whose files nobody removes meanwhile always completes.                  *)
(***************************************************************************)
Thm_C19_ExitCodes ==
    Exited =>
        /\ ~os_path_exists(fs0, args.directory) => exit_code # 0
        /\ ended = "interrupt" => exit_code # 0
        /\ (os_path_exists(fs0, args.directory) /\ ended \notin {"interrupt", "error"})
              => (ended = "return" /\ exit_code = 0)
        /\ (os_path_exists(fs0, args.directory) /\ ~env.sigint /\ vanished = {})
              => (ended = "return" /\ exit_code = 0)

Wit_C19_InterruptedAfterScan ==
    /\ Exited
    /\ ended = "interrupt"
    /\ Scanned
    /\ duplicates # <<>>
    /\ exit_code = 1

\* an execute-mode run has returned, every removal it attempted succeeded
\* and the files differ from those at the start by the removed ones only
CleanExecuteRun ==
    /\ Exited
    /\ ended = "return"
    /\ InList("delete", stages)
    /\ ~args.dry_run
    /\ \A i \in 1..Len(resolved) : FailedOf(resolved[i]) = {}
    /\ fs = Without(fs0, Range(deleted_files))

\* what find_duplicates returns for a second run with the same arguments
SecondRun ==
    find_duplicates(fs, args.chunk_size, args.directory, extensions,
                    args.min_size, args.max_size)

(***************************************************************************)
(* C20.  After an execute-mode run in which every removal succeeded and    *)
(* nothing else changed the directory, a second run with the same          *)
(* arguments finds no duplicate group, and so removes nothing.             *)
(***************************************************************************)
Thm_C20_SecondRunFindsNothing ==
    CleanExecuteRun => SecondRun.duplicates = <<>>

Wit_C20_TwoGroupsCleaned ==
    /\ CleanExecuteRun
    /\ Len(resolved) >= 2
    /\ Len(deleted_files) >= 2
    /\ SecondRun.size_groups # <<>>

\* the run was given an existing directory without any file in it
EmptyDirectory == args.directory = DirD /\ RootPaths = {}

(***************************************************************************)
(* C21 as stated.  On an empty directory the run has no size bucket and no *)
(* duplicate group, exits with code 0, and a requested report is written   *)
(* with all its counts equal to zero.                                      *)
(***************************************************************************)
Cex_C21_EmptyDirectoryReport ==
    (Exited /\ ended # "interrupt" /\ EmptyDirectory /\ (args.scan \/ args.delete)) =>
        /\ size_groups = <<>>
        /\ duplicates = <<>>
        /\ exit_code = 0
        /\ (TruthySeq(args.report) /\ CanWrite(fs0, args.report.v)) =>
               /\ ReportBuilt
               /\ ReportFileNew
               /\ report.total_duplicate_groups = 0
               /\ report.total_duplicate_files = 0
               /\ report.potential_space_saved = 0

(***************************************************************************)
(* C22.  find_duplicates computes the digest of a scanned file if and only *)
(* if the size bucket of the file has at least two members: a file alone   *)
(* in its bucket is never passed to calculate_file_hash, only scanned      *)
(* files are, and no file is passed to it twice.                           *)
(***************************************************************************)
Thm_C22_HashingIsLazy ==
    Scanned =>
        /\ \A i \in 1..Len(size_groups) :
               \A p \in Range(size_groups[i].files) :
                   p \in Range(hashed) <=> Len(size_groups[i].files) >= 2
        /\ Range(hashed) \subseteq DictFiles(size_groups)
        /\ \A a \in 1..Len(hashed), b \in 1..Len(hashed) :
               hashed[a] = hashed[b] => a = b

Wit_C22_SingletonBucketNotHashed ==
    /\ Found
    /\ hashed # <<>>
    /\ \E i \in 1..Len(size_groups) :
          /\ Len(size_groups[i].files) = 1
          /\ size_groups[i].files[1] \notin Range(hashed)

\* the files the scan keeps, the files it hashes and their digests, told
\* from the files and the arguments alone, without any order
ScanSet ==
    {p \in RootPaths : /\ CanStat(fs0, p)
                       /\ ~ExtRejected(NameOf(p), extensions)
                       /\ ~BelowMin(SizeOf(p), args.min_size)
                       /\ ~AboveMax(SizeOf(p), args.max_size)}
HashSet ==
    {p \in ScanSet : /\ CanOpen(fs0, p)
                     /\ \E q \in ScanSet \ {p} : SizeOf(q) = SizeOf(p)}
DigestOf(p) == calculate_file_hash(fs0, p, args.chunk_size).digest
OrderFreeGroups ==
    {S \in SUBSET HashSet :
        /\ Cardinality(S) >= 2
        /\ \A p \in S : S = {q \in HashSet : DigestOf(q) = DigestOf(p)}}

(***************************************************************************)
(* C23.  The duplicate groups find_duplicates returns, each taken as a set *)
(* of paths, are the classes of equal digest among the hashed files with   *)
(* two members or more: a set fixed by the files and the arguments, the    *)
(* same for every order in which os.walk lists the files (and so for every *)
(* order in which they are hashed).                                        *)
(***************************************************************************)
Thm_C23_GroupsDoNotDependOnOrder ==
    Found =>
        /\ {Range(duplicates[i].files) : i \in 1..Len(duplicates)} = OrderFreeGroups
        /\ Len(duplicates) = Cardinality(OrderFreeGroups)

Wit_C23_InterleavedWalk ==
    /\ Found
    /\ walk # Listing
    /\ Len(duplicates) = 2
    /\ \E i, j \in 1..Len(hashed) :
          /\ i + 1 < j
          /\ hashed[i] \in Range(duplicates[2].files)
          /\ hashed[i + 1] \in Range(duplicates[1].files)
          /\ hashed[j] \in Range(duplicates[2].files)

(***************************************************************************)
(* C24 as stated.  For every --chunk-size the command line accepts, zero   *)
(* and negative values included, the digest of a file is the digest of its *)
(* whole content: the key of every duplicate group is the digest of the    *)
(* whole content of each of its files.                                     *)
(***************************************************************************)
Cex_C24_DigestIndependentOfChunkSize ==
    Found =>
        \A i \in 1..Len(duplicates) :
            \A p \in Range(duplicates[i].files) :
                duplicates[i].key = fs0[p].content

(***************************************************************************)
(* C25.  In execute mode, when no other process touches the files, the     *)
(* path kept for a group is a member of the group, is never removed and    *)
(* still exists; so when the run has returned, at least one file of every  *)
(* duplicate group still exists.                                           *)
(***************************************************************************)
Thm_C25_KeptFileSurvives ==
    (~args.dry_run /\ vanished = {}) =>
        /\ \A i \in 1..Len(resolved) :
               /\ resolved[i].keep \in Range(resolved[i].group)
               /\ resolved[i].keep \notin Range(deleted_files)
               /\ resolved[i].keep \in DOMAIN fs
        /\ (Exited /\ ended = "return") =>
               \A i \in 1..Len(duplicates) :
                   Range(duplicates[i].files) \cap DOMAIN fs # {}

Wit_C25_OnlyKeptFileLeft ==
    /\ Exited
    /\ ended = "return"
    /\ ~args.dry_run
    /\ vanished = {}
    /\ \E i \in 1..Len(resolved) :
          /\ Len(resolved[i].group) >= 3
          /\ Range(resolved[i].group) \cap DOMAIN fs = {resolved[i].keep}

\* delete_duplicates has returned its list to main
DeleteReturned == Exited /\ ended = "return" /\ InList("delete", stages)

\* the deletion candidates and the kept paths of all groups
AllCandidates == UNION {Range(resolved[i].candidates) : i \in 1..Len(resolved)}
AllKept == {resolved[i].keep : i \in 1..Len(resolved)}

(***************************************************************************)
(* C26.  The list delete_duplicates returns holds, in execute mode, the    *)
(* candidates whose removal succeeded (those that are gone and were not    *)
(* taken away by another process) and no candidate whose removal failed;   *)
(* in dry-run mode it holds all candidates.  In both modes the candidates  *)
(* are the members of the groups but the kept ones, the list holds no kept *)
(* path and no path twice.                                                 *)
(***************************************************************************)
Thm_C26_ReturnedListIsExact ==
    DeleteReturned =>
        /\ Len(resolved) = Len(duplicates)
        /\ AllCandidates = DictFiles(duplicates) \ AllKept
        /\ IF args.dry_run
           THEN Range(deleted_files) = AllCandidates
           ELSE Range(deleted_files) =
                   {q \in AllCandidates : q \notin DOMAIN fs /\ q \notin vanished}
        /\ Range(deleted_files) \cap AllKept = {}
        /\ \A a \in 1..Len(deleted_files), b \in 1..Len(deleted_files) :
               deleted_files[a] = deleted_files[b] => a = b

Wit_C26_FailedRemovalNotListed ==
    /\ DeleteReturned
    /\ ~args.dry_run
    /\ deleted_files # <<>>
    /\ \E q \in AllCandidates : q \in DOMAIN fs /\ q \notin Range(deleted_files)

(***************************************************************************)
(* file_sync.py: FileSync.sync_files.  The two directories are maps from   *)
(* relative paths to files; a file has a content, a modification time and  *)
(* may be closed to the process (neither readable nor writable).          *)
(***************************************************************************)
MaxMtime == 2

RelPaths == {"a", "b"}
SyncModes == {"one_way", "two_way", "mirror"}
SyncFile(c, t, r) == [content |-> c, mtime |-> t, readable |-> r]

\* FileSync.calculate_file_hash: "" when the file cannot be read
sync_file_hash(f) ==
    IF f.readable THEN [ok |-> TRUE, digest |-> f.content]
    ELSE [ok |-> FALSE, digest |-> <<>>]

\* FileSync.get_file_info: root tells under which directory the path lies
get_file_info(dir, root, p) ==
    [path |-> [root |-> root, rel |-> p],
     size |-> Len(dir[p].content),
     mtime |-> dir[p].mtime,
     hash |-> sync_file_hash(dir[p])]

\* FileSync.scan_directory
sync_scan_directory(dir, root) == [p \in DOMAIN dir |-> get_file_info(dir, root, p)]

Abs(x) == IF x < 0 THEN 0 - x ELSE x

\* the test that makes a file present on both sides a modified file
IsModified(source_info, target_info) ==
    \/ source_info.size # target_info.size
    \/ Abs(source_info.mtime - target_info.mtime) > 1
    \/ source_info.hash # target_info.hash

\* FileSync.detect_changes
detect_changes(src, tgt, m) ==
    LET source_files == sync_scan_directory(src, "source")
        target_files == sync_scan_directory(tgt, "target")
        S == DOMAIN source_files
        T == DOMAIN target_files
        fromTarget == IF m = "one_way" THEN {} ELSE T \ S
    IN  [new_files |->
            [p \in (S \ T) \cup fromTarget |->
                IF p \in S THEN source_files[p] ELSE target_files[p]],
         modified_files |->
            [p \in {q \in S \cap T : IsModified(source_files[q], target_files[q])} |->
                <<source_files[p], target_files[p]>>],
         deleted_files |-> IF m = "one_way" THEN T \ S ELSE {}]

\* shutil.copy2(from/p, to/p) succeeds when the file to copy can be read
\* and the file to overwrite, if there is one, is not closed to the process
CanCopy(from, to, p) ==
    /\ p \in DOMAIN from
    /\ from[p].readable
    /\ p \in DOMAIN to => to[p].readable

\* shutil.copy2(from/p, to/p): content and modification time are copied
copy2(from, to, p) == [q \in DOMAIN to \cup {p} |-> IF q = p THEN from[p] ELSE to[q]]

\* a map without one key
DropKey(f, p) == [q \in DOMAIN f \ {p} |-> f[q]]

\* the direction of the copy of a modified file
SourceIsNewer(source_info, target_info) == source_info.mtime > target_info.mtime

\* the directories sync_files can be given: file b is the same wherever
\* it exists, file a varies in content, time and readability
SyncTrees ==
    {t \in UNION {[S -> {SyncFile(c, m, r) : c \in {<<1>>, <<2>>}, m \in 0..MaxMtime,
                                              r \in BOOLEAN}] :
                    S \in SUBSET RelPaths} :
        "b" \in DOMAIN t => t["b"] = SyncFile(<<1>>, 0, TRUE)}

InitSync ==
    /\ DedupIdle
    /\ RenameIdle
    /\ TaskIdle
    /\ source_dir \in SyncTrees
    /\ target_dir \in SyncTrees
    /\ mode \in SyncModes
    /\ sync_dry_run \in BOOLEAN
    /\ source_dir0 = source_dir
    /\ target_dir0 = target_dir
    /\ sync_pc = "start"
    /\ new_files = <<>>
    /\ modified_files = <<>>
    /\ removed_files = {}
    /\ sync_log = <<>>
    /\ stats = <<>>

\* detect_changes and the stats dict; dry_run returns after the preview
SyncDetect ==
    /\ sync_pc = "start"
    /\ LET r == detect_changes(source_dir, target_dir, mode)
       IN  /\ new_files' = r.new_files
           /\ modified_files' = r.modified_files
           /\ removed_files' = r.deleted_files
           /\ stats' = [new_files |-> Cardinality(DOMAIN r.new_files),
                        modified_files |-> Cardinality(DOMAIN r.modified_files),
                        deleted_files |-> Cardinality(r.deleted_files),
                        conflicts |-> 0]
    /\ sync_pc' = IF sync_dry_run THEN "done" ELSE "new"
    /\ UNCHANGED <<source_dir, target_dir, source_dir0, target_dir0, mode,
                   sync_dry_run, sync_log>>
    /\ UNCHANGED NotSync

\* one iteration of the loop over new_files: the file is copied from the
\* side where it was found to the other side
SyncCopyNew ==
    /\ sync_pc = "new"
    /\ \E file_path \in DOMAIN new_files :
          LET fromSource == new_files[file_path].path = [root |-> "source", rel |-> file_path]
              succeeded == IF fromSource THEN CanCopy(source_dir, target_dir, file_path)
                           ELSE CanCopy(target_dir, source_dir, file_path)
          IN  /\ target_dir' = IF fromSource /\ succeeded
                               THEN copy2(source_dir, target_dir, file_path)
                               ELSE target_dir
              /\ source_dir' = IF ~fromSource /\ succeeded
                               THEN copy2(target_dir, source_dir, file_path)
                               ELSE source_dir
              /\ sync_log' = IF succeeded
                             THEN Append(sync_log, [action |-> "copy", file |-> file_path])
                             ELSE sync_log
              /\ new_files' = DropKey(new_files, file_path)
    /\ UNCHANGED <<source_dir0, target_dir0, mode, sync_dry_run, sync_pc,
                   modified_files, removed_files, stats>>
    /\ UNCHANGED NotSync

\* the loop over new_files ends
SyncNewDone ==
    /\ sync_pc = "new"
    /\ DOMAIN new_files = {}
    /\ sync_pc' = "modified"
    /\ UNCHANGED <<source_dir, target_dir, source_dir0, target_dir0, mode,
                   sync_dry_run, new_files, modified_files, removed_files,
                   sync_log, stats>>
    /\ UNCHANGED NotSync

\* one iteration of the loop over modified_files: the side with the
\* greater mtime is copied over the other one, the target side when the
\* source's mtime is not greater
SyncUpdate ==
    /\ sync_pc = "modified"
    /\ \E file_path \in DOMAIN modified_files :
          LET source_info == modified_files[file_path][1]
              target_info == modified_files[file_path][2]
              toTarget == SourceIsNewer(source_info, target_info)
              succeeded == IF toTarget THEN CanCopy(source_dir, target_dir, file_path)
                           ELSE CanCopy(target_dir, source_dir, file_path)
          IN  /\ target_dir' = IF toTarget /\ succeeded
                               THEN copy2(source_dir, target_dir, file_path)
                               ELSE target_dir
              /\ source_dir' = IF ~toTarget /\ succeeded
                               THEN copy2(target_dir, source_dir, file_path)
                               ELSE source_dir
              /\ sync_log' = IF succeeded
                             THEN Append(sync_log, [action |-> "update", file |-> file_path])
                             ELSE sync_log
              /\ modified_files' = DropKey(modified_files, file_path)
    /\ UNCHANGED <<source_dir0, target_dir0, mode, sync_dry_run, sync_pc,
                   new_files, removed_files, stats>>
    /\ UNCHANGED NotSync

\* the loop over modified_files ends
SyncModifiedDone ==
    /\ sync_pc = "modified"
    /\ DOMAIN modified_files = {}
    /\ sync_pc' = "deleted"
    /\ UNCHANGED <<source_dir, target_dir, source_dir0, target_dir0, mode,
                   sync_dry_run, new_files, modified_files, removed_files,
                   sync_log, stats>>
    /\ UNCHANGED NotSync

\* one iteration of the loop over deleted_files: the target's file is
\* unlinked
SyncDelete ==
    /\ sync_pc = "deleted"
    /\ \E file_path \in removed_files :
          LET succeeded == file_path \in DOMAIN target_dir
          IN  /\ target_dir' = IF succeeded THEN DropKey(target_dir, file_path)
                               ELSE target_dir
              /\ sync_log' = IF succeeded
                             THEN Append(sync_log, [action |-> "delete", file |-> file_path])
                             ELSE sync_log
              /\ removed_files' = removed_files \ {file_path}
    /\ UNCHANGED <<source_dir, source_dir0, target_dir0, mode, sync_dry_run,
                   sync_pc, new_files, modified_files, stats>>
    /\ UNCHANGED NotSync

\* the loop over deleted_files ends and sync_files returns stats
SyncDeletedDone ==
    /\ sync_pc = "deleted"
    /\ removed_files = {}
    /\ sync_pc' = "done"
    /\ UNCHANGED <<source_dir, target_dir, source_dir0, target_dir0, mode,
                   sync_dry_run, new_files, modified_files, removed_files,
                   sync_log, stats>>
    /\ UNCHANGED NotSync

NextSync ==
    \/ SyncDetect
    \/ SyncCopyNew
    \/ SyncNewDone
    \/ SyncUpdate
    \/ SyncModifiedDone
    \/ SyncDelete
    \/ SyncDeletedDone

SpecSync == InitSync /\ [][NextSync]_vars

(***************************************************************************)
(* C27 as stated.  In one_way mode sync_files creates, overwrites and      *)
(* deletes no file under the source directory, whatever the two            *)
(* directories hold.                                                       *)
(***************************************************************************)
Cex_C27_OneWayLeavesSourceAlone ==
    mode = "one_way" => source_dir = source_dir0

(***************************************************************************)
(* batch_renamer.py: BatchRenamer.execute_rename.  The directory is a map  *)
(* from paths to contents; every file has a content of its own, so a file  *)
(* that is overwritten is a content that is lost.                          *)
(***************************************************************************)
MaxPlans == 3

RenamePaths == {"x", "y", "z"}
ContentOf == [p \in RenamePaths |-> CASE p = "x" -> 1 [] p = "y" -> 2 [] OTHER -> 3]

\* new_path.exists()
TargetExistsNever(files, new_path) == FALSE
TargetExists(files, new_path) == new_path \in DOMAIN files

\* old_path.rename(new_path) raises when old_path does not exist
RenameRaises(files, old_path) == old_path \notin DOMAIN files

\* old_path.rename(new_path): new_path now names the file, replacing what
\* it named before
os_rename(files, old_path, new_path) ==
    [q \in (DOMAIN files \ {old_path}) \cup {new_path} |->
        IF q = new_path THEN files[old_path] ELSE files[q]]

\* the lists of at most n plans
RECURSIVE PlanLists(_)
PlanLists(n) ==
    IF n = 0 THEN {<<>>}
    ELSE LET shorter == PlanLists(n - 1)
         IN  shorter \cup {Append(l, <<o, t>>) :
                              l \in {k \in shorter : Len(k) = n - 1},
                              o \in RenamePaths, t \in RenamePaths}

InitRename ==
    /\ DedupIdle
    /\ SyncIdle
    /\ TaskIdle
    /\ \E S \in SUBSET RenamePaths : dir_files = [p \in S |-> ContentOf[p]]
    /\ dir_files0 = dir_files
    /\ rename_plans \in PlanLists(MaxPlans)
    /\ rename_dry_run \in BOOLEAN
    /\ rename_pc = "start"
    /\ plan_idx = 1
    /\ success_count = 0
    /\ rename_log = <<>>

\* dry_run: the plans are printed and execute_rename returns
RenamePreview ==
    /\ rename_pc = "start"
    /\ rename_dry_run
    /\ rename_pc' = "done"
    /\ UNCHANGED <<dir_files, dir_files0, rename_plans, rename_dry_run,
                   plan_idx, success_count, rename_log>>
    /\ UNCHANGED NotRename

\* execute mode: success_count = 0 and the loop starts
RenameBegin ==
    /\ rename_pc = "start"
    /\ ~rename_dry_run
    /\ success_count' = 0
    /\ rename_pc' = "loop"
    /\ UNCHANGED <<dir_files, dir_files0, rename_plans, rename_dry_run,
                   plan_idx, rename_log>>
    /\ UNCHANGED NotRename

\* one iteration of the loop: skip when new_path exists, else rename; an
\* exception of rename is caught
RenameOne ==
    /\ rename_pc = "loop"
    /\ plan_idx <= Len(rename_plans)
    /\ LET old_path == rename_plans[plan_idx][1]
           new_path == rename_plans[plan_idx][2]
           existed == new_path \in DOMAIN dir_files
       IN  IF TargetExists(dir_files, new_path)
           THEN /\ rename_log' = Append(rename_log, [existed |-> existed, did |-> "skip"])
                /\ UNCHANGED <<dir_files, success_count>>
           ELSE IF RenameRaises(dir_files, old_path)
           THEN /\ rename_log' = Append(rename_log, [existed |-> existed, did |-> "error"])
                /\ UNCHANGED <<dir_files, success_count>>
           ELSE /\ dir_files' = os_rename(dir_files, old_path, new_path)
                /\ success_count' = success_count + 1
                /\ rename_log' = Append(rename_log, [existed |-> existed, did |-> "rename"])
    /\ plan_idx' = plan_idx + 1
    /\ UNCHANGED <<dir_files0, rename_plans, rename_dry_run, rename_pc>>
    /\ UNCHANGED NotRename

\* the loop ends and execute_rename returns
RenameDone ==
    /\ rename_pc = "loop"
    /\ plan_idx > Len(rename_plans)
    /\ rename_pc' = "done"
    /\ UNCHANGED <<dir_files, dir_files0, rename_plans, rename_dry_run,
                   plan_idx, success_count, rename_log>>
    /\ UNCHANGED NotRename

NextRename ==
    \/ RenamePreview
    \/ RenameBegin
    \/ RenameOne
    \/ RenameDone

SpecRename == InitRename /\ [][NextRename]_vars

\* the contents present in a directory
Contents(files) == {files[p] : p \in DOMAIN files}

(***************************************************************************)
(* C28.  execute_rename never overwrites a file: a plan whose target       *)
(* exists when it is processed is skipped, so at every moment the          *)
(* directory holds as many files as at the start, and the same contents;   *)
(* with dry_run nothing is renamed at all.                                 *)
(***************************************************************************)
Thm_C28_RenameNeverOverwrites ==
    /\ Cardinality(DOMAIN dir_files) = Cardinality(DOMAIN dir_files0)
    /\ Contents(dir_files) = Contents(dir_files0)
    /\ \A i \in 1..Len(rename_log) : rename_log[i].existed => rename_log[i].did = "skip"
    /\ rename_dry_run => (dir_files = dir_files0 /\ rename_log = <<>>)

Wit_C28_SecondPlanToSameTargetSkipped ==
    /\ rename_pc = "done"
    /\ ~rename_dry_run
    /\ Len(rename_plans) >= 2
    /\ rename_plans[1][1] # rename_plans[2][1]
    /\ rename_plans[1][2] = rename_plans[2][2]
    /\ rename_log[1].did = "rename"
    /\ rename_log[2].did = "skip"
    /\ rename_plans[2][1] \in DOMAIN dir_files

(***************************************************************************)
(* task_scheduler.py: Task and TaskScheduler.execute_task, with            *)
(* enable_task and disable_task.  The command of a task is run by the      *)
(* environment: each attempt ends in one of four ways.                     *)
(***************************************************************************)
MaxRetry == 2
MaxCalls == 3

\* the names execute_task is called with: "u" is no task of the scheduler
TaskNames == {"a", "b"}
CallNames == TaskNames \cup {"u"}

\* how an attempt ends: return code 0, another return code,
\* subprocess.TimeoutExpired, or another exception
Outcomes == {"ok", "nonzero", "timeout", "exception"}

\* Task.__init__: the counters start at zero
NewTask(retry_count, enabled) ==
    [retry_count |-> retry_count, enabled |-> enabled,
     run_count |-> 0, success_count |-> 0, failure_count |-> 0,
     last_status |-> "", last_error |-> ""]

\* attempt is in range(task.retry_count + 1)
InRangeOneMore(n, retry_count) == n <= retry_count + 1
InRange(n, retry_count) == n < retry_count + 1

\* the branch of returncode == 0
MarkSuccess(task) ==
    [task EXCEPT !.last_status = "success", !.success_count = @ + 1]

\* the block under 'if not success'
MarkFailedUncounted(task, msg) ==
    [task EXCEPT !.last_status = "failed", !.last_error = msg]
MarkFailed(task, msg) ==
    [task EXCEPT !.last_status = "failed", !.failure_count = @ + 1,
                 !.last_error = msg]

InitTask ==
    /\ DedupIdle
    /\ SyncIdle
    /\ RenameIdle
    /\ \E rc \in (0 - 1)..MaxRetry, ea \in BOOLEAN, eb \in BOOLEAN :
          tasks = [n \in TaskNames |->
                      IF n = "a" THEN NewTask(rc, ea) ELSE NewTask(0, eb)]
    /\ tasks_before = tasks
    /\ task_pc = "idle"
    /\ task_name = ""
    /\ attempt = 0
    /\ success = FALSE
    /\ error_msg = ""
    /\ results = <<>>
    /\ call_kind = ""
    /\ calls = 0

\* enable_task(name) for a task of the scheduler, between two calls of
\* execute_task
EnableTask ==
    /\ task_pc = "idle"
    /\ \E n \in TaskNames :
          /\ ~tasks[n].enabled
          /\ tasks' = [tasks EXCEPT ![n].enabled = TRUE]
    /\ UNCHANGED <<tasks_before, task_pc, task_name, attempt, success,
                   error_msg, results, call_kind, calls>>
    /\ UNCHANGED NotTask

\* disable_task(name) for a task of the scheduler, between two calls of
\* execute_task
DisableTask ==
    /\ task_pc = "idle"
    /\ \E n \in TaskNames :
          /\ tasks[n].enabled
          /\ tasks' = [tasks EXCEPT ![n].enabled = FALSE]
    /\ UNCHANGED <<tasks_before, task_pc, task_name, attempt, success,
                   error_msg, results, call_kind, calls>>
    /\ UNCHANGED NotTask

\* execute_task(name) with a name that is no task: it returns at once
ExecUnknown ==
    /\ task_pc = "idle"
    /\ calls < MaxCalls
    /\ \E n \in CallNames \ DOMAIN tasks :
          task_name' = n
    /\ tasks_before' = tasks
    /\ results' = <<>>
    /\ call_kind' = "unknown"
    /\ calls' = calls + 1
    /\ UNCHANGED <<tasks, task_pc, attempt, success, error_msg>>
    /\ UNCHANGED NotTask

\* execute_task(name) for a disabled task: it returns at once
ExecDisabled ==
    /\ task_pc = "idle"
    /\ calls < MaxCalls
    /\ \E n \in DOMAIN tasks :
          /\ ~tasks[n].enabled
          /\ task_name' = n
    /\ tasks_before' = tasks
    /\ results' = <<>>
    /\ call_kind' = "disabled"
    /\ calls' = calls + 1
    /\ UNCHANGED <<tasks, task_pc, attempt, success, error_msg>>
    /\ UNCHANGED NotTask

\* execute_task(name) for an enabled task: run_count += 1, then the
\* retry loop starts
ExecBegin ==
    /\ task_pc = "idle"
    /\ calls < MaxCalls
    /\ \E n \in DOMAIN tasks :
          /\ tasks[n].enabled
          /\ task_name' = n
          /\ tasks' = [tasks EXCEPT ![n].run_count = @ + 1]
    /\ tasks_before' = tasks
    /\ attempt' = 0
    /\ success' = FALSE
    /\ error_msg' = ""
    /\ results' = <<>>
    /\ call_kind' = "ran"
    /\ calls' = calls + 1
    /\ task_pc' = "loop"
    /\ UNCHANGED NotTask

\* one attempt: return code 0 ends the loop with success, anything else
\* sets error_msg and the loop goes on
ExecAttempt ==
    /\ task_pc = "loop"
    /\ InRange(attempt, tasks[task_name].retry_count)
    /\ \E o \in Outcomes :
          /\ results' = Append(results, o)
          /\ IF o = "ok"
             THEN /\ success' = TRUE
                  /\ tasks' = [tasks EXCEPT ![task_name] = MarkSuccess(@)]
                  /\ task_pc' = "after"
                  /\ UNCHANGED <<attempt, error_msg>>
             ELSE /\ error_msg' = o
                  /\ attempt' = attempt + 1
                  /\ UNCHANGED <<success, tasks, task_pc>>
    /\ UNCHANGED <<tasks_before, task_name, call_kind, calls>>
    /\ UNCHANGED NotTask

\* the loop is over: without a success the run is marked failed;
\* execute_task returns
ExecFinish ==
    /\ \/ task_pc = "after"
       \/ task_pc = "loop" /\ ~InRange(attempt, tasks[task_name].retry_count)
    /\ tasks' = IF success THEN tasks
                ELSE [tasks EXCEPT ![task_name] = MarkFailed(@, error_msg)]
    /\ task_pc' = "idle"
    /\ UNCHANGED <<tasks_before, task_name, attempt, success, error_msg,
                   results, call_kind, calls>>
    /\ UNCHANGED NotTask

NextTask ==
    \/ EnableTask
    \/ DisableTask
    \/ ExecUnknown
    \/ ExecDisabled
    \/ ExecBegin
    \/ ExecAttempt
    \/ ExecFinish

SpecTask == InitTask /\ [][NextTask]_vars

\* every attempt ends (subprocess.run has a timeout, time.sleep is finite)
\* and the interpreter goes on to the next statement
SpecTaskFair == SpecTask /\ WF_vars(ExecAttempt) /\ WF_vars(ExecFinish)

\* the retry_count of the task of the call
RetryCountOfCall == tasks[task_name].retry_count

\* no attempt of the call returned exit code 0
AllAttemptsFailed == \A i \in 1..Len(results) : results[i] # "ok"

\* what holds of a call of execute_task on an enabled task, in progress
\* or completed
RetriesBounded ==
    call_kind = "ran" =>
        /\ Len(results) <= RetryCountOfCall + 1
        /\ \A i \in 1..(Len(results) - 1) : results[i] # "ok"
        /\ task_pc = "idle" =>
               /\ tasks[task_name].last_status \in {"success", "failed"}
               /\ tasks[task_name].last_status = "failed" <=>
                      (AllAttemptsFailed /\ Len(results) = RetryCountOfCall + 1)
               /\ tasks[task_name].last_status = "success" <=>
                      (results # <<>> /\ results[Len(results)] = "ok")

(***************************************************************************)
(* C29.  A call of execute_task on an enabled task makes at most           *)
(* retry_count + 1 attempts, makes none after the first attempt that       *)
(* returns exit code 0, marks the run 'failed' exactly when all            *)
(* retry_count + 1 attempts failed (non-zero exit, timeout or exception),  *)
(* and always returns.                                                     *)
(***************************************************************************)
Thm_C29_BoundedRetriesAndTermination ==
    /\ []RetriesBounded
    /\ (task_pc = "loop") ~> (task_pc = "idle")

Wit_C29_SuccessAtLastRetry ==
    /\ task_pc = "idle"
    /\ call_kind = "ran"
    /\ RetryCountOfCall = 2
    /\ results = <<"nonzero", "timeout", "ok">>
    /\ tasks[task_name].last_status = "success"

\* the three counters of a task
Counters(t) == <<t.run_count, t.success_count, t.failure_count>>

(***************************************************************************)
(* C30.  For tasks created with zero counters, whenever no call of         *)
(* execute_task is in progress, run_count = success_count + failure_count  *)
(* for every task; a completed call on an enabled task has increased the   *)
(* run_count of that task by exactly 1 and changed no counter of another   *)
(* task; a call on a disabled or unknown task has changed no counter.      *)
(***************************************************************************)
Thm_C30_CountersAddUp ==
    task_pc = "idle" =>
        /\ \A n \in DOMAIN tasks :
               tasks[n].run_count = tasks[n].success_count + tasks[n].failure_count
        /\ call_kind = "ran" =>
               /\ tasks_before[task_name].enabled
               /\ tasks[task_name].run_count = tasks_before[task_name].run_count + 1
               /\ \A n \in DOMAIN tasks \ {task_name} :
                      Counters(tasks[n]) = Counters(tasks_before[n])
        /\ call_kind \in {"unknown", "disabled"} =>
               /\ \A n \in DOMAIN tasks : Counters(tasks[n]) = Counters(tasks_before[n])
               /\ call_kind = "disabled" => ~tasks_before[task_name].enabled
               /\ call_kind = "unknown" => task_name \notin DOMAIN tasks

Wit_C30_MixedCallsThenDisabled ==
    /\ task_pc = "idle"
    /\ call_kind = "disabled"
    /\ task_name = "a"
    /\ calls = 3
    /\ tasks["a"].success_count = 1
    /\ tasks["a"].failure_count = 1
    /\ tasks["a"].run_count = 2

====
